---- MODULE Spec2Model ----
(***************************************************************************)
(* Model of src/main.py: a FastAPI service over two MongoDB collections    *)
(* (products, orders).  Every store call (insert_one, find_one,            *)
(* count_documents, find, aggregate) is one atomic step; the handlers of   *)
(* concurrent requests interleave between store calls.                     *)
(*                                                                         *)
(* Abstractions, all stated here:                                          *)
(*  - a string is a sequence of one-character strings;                     *)
(*  - an ObjectId is a natural number, its hex form has OidHexWidth digits *)
(*    (24 in bson), and the driver hands out increasing ObjectIds;         *)
(*  - prices are positive integers (floats whose arithmetic is exact);     *)
(*  - created_at and status are not read by any handler and are left out   *)
(*    of the documents, except status which is the fixed value "created".  *)
(***************************************************************************)
EXTENDS Integers, Sequences, FiniteSets, TLC

\* ------------------------------------------------------------------ bounds
MaxProducts == 2
MaxOrders == 2
MaxItems == 2
MaxLimit == 2
MaxOffset == 2
MaxPageOffset == 5
MaxPageLimit == 4
MaxPageTotal == 5
OidHexWidth == 2

Procs == {1, 2}
Readers == {1}
Writers == {2}

\* ------------------------------------------------------------------ values
\* Optional[T]: None, or a present value.
None == <<>>
Some(v) == <<v>>
IsNone(o) == o = <<>>
Value(o) == o[1]

Min(a, b) == IF a < b THEN a ELSE b
Max(a, b) == IF a > b THEN a ELSE b

Range(s) == {s[i] : i \in 1..Len(s)}

\* ------------------------------------------------------------------ strings
HexDigits == <<"0", "1", "2", "3", "4", "5", "6", "7",
               "8", "9", "a", "b", "c", "d", "e", "f">>

Lower(c) ==
    CASE c = "A" -> "a" [] c = "B" -> "b" [] c = "C" -> "c"
      [] c = "D" -> "d" [] c = "E" -> "e" [] c = "F" -> "f"
      [] OTHER -> c

Upper(c) ==
    CASE c = "a" -> "A" [] c = "b" -> "B" [] c = "c" -> "C"
      [] c = "d" -> "D" [] c = "e" -> "E" [] c = "f" -> "F"
      [] OTHER -> c

UpperStr(s) == [i \in 1..Len(s) |-> Upper(s[i])]

IsHex(c) == \E k \in 1..Len(HexDigits) : HexDigits[k] = Lower(c)
HexVal(c) == (CHOOSE k \in 1..Len(HexDigits) : HexDigits[k] = Lower(c)) - 1

RECURSIVE HexToInt(_)
HexToInt(s) ==
    IF s = <<>> THEN 0
    ELSE HexToInt(SubSeq(s, 1, Len(s) - 1)) * Len(HexDigits) + HexVal(s[Len(s)])

RECURSIVE ToHex(_, _)
ToHex(n, w) ==
    IF w = 0 THEN <<>>
    ELSE Append(ToHex(n \div Len(HexDigits), w - 1), HexDigits[(n % Len(HexDigits)) + 1])

\* bson.ObjectId(s): accepts exactly the strings of OidHexWidth hex digits, in
\* either letter case, and raises otherwise.
ObjectIdValid(s) == Len(s) = OidHexWidth /\ \A i \in 1..Len(s) : IsHex(s[i])
ObjectId(s) == HexToInt(s)
\* str(ObjectId) and $toString: the lower-case hex form.
ObjectIdStr(oid) == ToHex(oid, OidHexWidth)

\* ------------------------------------------------------------------ pagination
PageInfo(next, limit, previous) == [next |-> next, limit |-> limit, previous |-> previous]

\* A variant that takes offset - limit as it comes, below 0 included.
create_pagination_info_no_clamp(offset, limit, total_count) ==
    LET next_offset == IF offset + limit < total_count THEN Some(offset + limit) ELSE None
        previous_offset == IF offset > 0 THEN Some(offset - limit) ELSE None
    IN  PageInfo(next_offset, limit, IF offset > 0 THEN previous_offset ELSE None)

\* create_pagination_info as written: next_offset, previous_offset, PageInfo(...).
create_pagination_info(offset, limit, total_count) ==
    LET next_offset == IF offset + limit < total_count THEN Some(offset + limit) ELSE None
        previous_offset == IF offset > 0 THEN Some(Max(0, offset - limit)) ELSE None
    IN  PageInfo(next_offset, limit, IF offset > 0 THEN previous_offset ELSE None)

\* ------------------------------------------------------------------ regex
\* re.escape: a backslash goes before every regex metacharacter.
IsRegexSpecial(c) == c \in {".", "*", "\\"}

\* The pattern handed to $regex as it was received.
ReEscapeNone(s) == s

RECURSIVE ReEscape(_)
ReEscape(s) ==
    IF s = <<>> THEN <<>>
    ELSE (IF IsRegexSpecial(Head(s)) THEN <<"\\", Head(s)>> ELSE <<Head(s)>>)
         \o ReEscape(Tail(s))

\* The pattern as a sequence of tokens: an escaped character is a literal, a
\* bare "." matches any character, anything else is a literal.
RECURSIVE RegexTokens(_)
RegexTokens(pat) ==
    IF pat = <<>> THEN <<>>
    ELSE IF Head(pat) = "\\" /\ Len(pat) >= 2
         THEN <<[any |-> FALSE, ch |-> pat[2]]>> \o RegexTokens(SubSeq(pat, 3, Len(pat)))
    ELSE IF Head(pat) = "."
         THEN <<[any |-> TRUE, ch |-> "."]>> \o RegexTokens(Tail(pat))
    ELSE <<[any |-> FALSE, ch |-> Head(pat)]>> \o RegexTokens(Tail(pat))

\* {"$regex": pat, "$options": "i"}: an unanchored, case-insensitive search.
RegexSearchI(pat, text) ==
    LET toks == RegexTokens(pat)
    IN  \E i \in 1..(Len(text) + 1) :
            /\ i + Len(toks) - 1 <= Len(text)
            /\ \A k \in 1..Len(toks) :
                   toks[k].any \/ Lower(toks[k].ch) = Lower(text[i + k - 1])

\* ------------------------------------------------------------------ inputs
FirstOid == 10

ProductInputs ==
    { [name |-> <<"a", "c", "b">>, price |-> 10,
       sizes |-> <<[size |-> <<"S">>, quantity |-> 1]>>],
      [name |-> <<"A", ".", "B">>, price |-> 5,
       sizes |-> <<[size |-> <<"S">>, quantity |-> 0], [size |-> <<"M">>, quantity |-> 2]>>],
      [name |-> <<"a", "c", "b">>, price |-> 5,
       sizes |-> <<[size |-> <<>>, quantity |-> 1]>>] }

\* The products that orders are placed on: sizes play no part in an order.
OrderProductInputs == {x \in ProductInputs : x.sizes[1].size # <<>>}
OneUser == {"u1"}

NameFilters == {None, Some(<<>>), Some(<<"a", ".", "b">>), Some(<<"B">>)}
SizeFilters == {None, Some(<<>>), Some(<<"S">>)}
Limits == 1..MaxLimit
Offsets == 0..MaxOffset
Users == {"u1", "u2"}

\* Product ids a client may send: the canonical form of an id, the same id in
\* upper case, the next id the driver hands out, and a malformed one.
ItemInputs ==
    { [productid |-> ObjectIdStr(FirstOid), qty |-> 2],
      [productid |-> UpperStr(ObjectIdStr(FirstOid)), qty |-> 3],
      [productid |-> ObjectIdStr(FirstOid + 1), qty |-> 3],
      [productid |-> [i \in 1..OidHexWidth |-> "g"], qty |-> 1] }

SeqsUpTo(S, n) == UNION { [1..k -> S] : k \in 0..n }
ItemLists == SeqsUpTo(ItemInputs, MaxItems)

\* Orders that are read back: the items name the first product, in either
\* letter case, or are malformed.
ReadItemLists == SeqsUpTo({x \in ItemInputs : x.productid # ObjectIdStr(FirstOid + 1)}, MaxItems)

\* ------------------------------------------------------------------ state
VARIABLES
    products_collection,   \* db.products, in insertion order
    orders_collection,     \* db.orders, in insertion order
    next_oid,              \* the driver's ObjectId generator
    pc,                    \* per request slot: where its handler stands
    request,               \* per request slot: the request being served
    validated_items,       \* create_order: validated_items
    total_amount,          \* create_order: total_amount
    total_count,           \* list_products / get_user_orders: total_count
    response,              \* per request slot: the response sent
    known,                 \* history: number of products stored when a listing arrived
    page_in,               \* arguments handed to create_pagination_info
    page_out               \* its result

vars == <<products_collection, orders_collection, next_oid, pc, request,
          validated_items, total_amount, total_count, response, known,
          page_in, page_out>>

store_vars == <<products_collection, orders_collection, next_oid>>
page_vars == <<page_in, page_out>>

NoRequest ==
    [op |-> "none", product |-> None, name |-> None, size |-> None,
     limit |-> 0, offset |-> 0, userId |-> "", items |-> <<>>]

NoResponse == [status |-> 0, id |-> None, detail |-> None, data |-> <<>>, page |-> None]

\* A variant whose error responses carry no detail.
HTTPExceptionNoDetail(status_code, detail) ==
    [status |-> status_code, id |-> None, detail |-> None, data |-> <<>>, page |-> None]

\* HTTPException(status_code, detail): detail is the id the message names, or
\* None for the generic 500 message.
HTTPException(status_code, detail) ==
    [status |-> status_code, id |-> None, detail |-> detail, data |-> <<>>, page |-> None]

\* ------------------------------------------------------------------ store
RECURSIVE SortById(_)
SortById(docs) ==
    IF docs = {} THEN <<>>
    ELSE LET d == CHOOSE x \in docs : \A y \in docs : x._id <= y._id
         IN  <<d>> \o SortById(docs \ {d})

Skip(s, n) == SubSeq(s, n + 1, Len(s))
Limit(s, n) == SubSeq(s, 1, Min(n, Len(s)))

insert_one(collection, doc, oid) == Append(collection, [doc EXCEPT !._id = oid])

\* find_one({"_id": oid}): the document, or None.
find_one(collection, oid) ==
    IF \E i \in 1..Len(collection) : collection[i]._id = oid
    THEN Some(collection[CHOOSE i \in 1..Len(collection) : collection[i]._id = oid])
    ELSE None

\* ------------------------------------------------------------------ queries
\* Python truthiness of an Optional[str]: None and "" are both false.
Truthy(o) == ~IsNone(o) /\ Value(o) # <<>>

\* list_products: query_filter built from the name and size parameters.
QueryFilter(name, size) ==
    [name |-> IF Truthy(name) THEN Some(ReEscape(Value(name))) ELSE None,
     size |-> IF Truthy(size) THEN size ELSE None]

\* A product document against query_filter: every key present must match.
Matches(doc, query_filter) ==
    /\ IsNone(query_filter.name) \/ RegexSearchI(Value(query_filter.name), doc.name)
    /\ IsNone(query_filter.size)
         \/ \E i \in 1..Len(doc.sizes) : doc.sizes[i].size = Value(query_filter.size)

count_documents(collection, query_filter) ==
    Cardinality({i \in 1..Len(collection) : Matches(collection[i], query_filter)})

\* serialize_object_id + ProductListItem(**product) on the projection {name, price}.
ProductListItem(doc) == [id |-> ObjectIdStr(doc._id), name |-> doc.name, price |-> doc.price]

\* A variant of the cursor without skip(offset).
FindProductsNoSkip(collection, query_filter, offset, limit) ==
    LET hits == SortById({d \in Range(collection) : Matches(d, query_filter)})
        page == Limit(hits, limit)
    IN  [i \in 1..Len(page) |-> ProductListItem(page[i])]

\* find(query_filter, {"name": 1, "price": 1}).sort("_id", 1).skip(offset).limit(limit)
FindProducts(collection, query_filter, offset, limit) ==
    LET hits == SortById({d \in Range(collection) : Matches(d, query_filter)})
        page == Limit(Skip(hits, offset), limit)
    IN  [i \in 1..Len(page) |-> ProductListItem(page[i])]

count_orders(collection, user_id) ==
    Cardinality({i \in 1..Len(collection) : collection[i].userId = user_id})

\* $lookup: the products whose $toString(_id) is one of the order's productids,
\* projected to {_id, name}.
Lookup(products, order_doc) ==
    { [_id |-> d._id, name |-> d.name] :
        d \in { x \in Range(products) :
                  \E i \in 1..Len(order_doc.items) :
                      order_doc.items[i].productid = ObjectIdStr(x._id) } }

\* A variant of the pipeline without the $limit stage.
AggregateNoLimit(orders, products, user_id, offset, limit) ==
    LET hits == SortById({d \in Range(orders) : d.userId = user_id})
        page == Skip(hits, offset)
    IN  [i \in 1..Len(page) |->
            [order_doc |-> page[i], product_details |-> Lookup(products, page[i])]]

\* pipeline: $match userId, $sort _id, $skip, $limit, $lookup.
Aggregate(orders, products, user_id, offset, limit) ==
    LET hits == SortById({d \in Range(orders) : d.userId = user_id})
        page == Limit(Skip(hits, offset), limit)
    IN  [i \in 1..Len(page) |->
            [order_doc |-> page[i], product_details |-> Lookup(products, page[i])]]

\* get_user_orders, the loop body: product_map.get(item["productid"]) per item,
\* items without an entry are skipped.
RECURSIVE OrderItems(_, _)
OrderItems(items, product_details) ==
    IF items = <<>> THEN <<>>
    ELSE LET item == Head(items)
             found == {q \in product_details : ObjectIdStr(q._id) = item.productid}
         IN  (IF found # {}
              THEN <<[productDetails |-> [name |-> (CHOOSE q \in found : TRUE).name,
                                          id |-> item.productid],
                      qty |-> item.qty]>>
              ELSE <<>>)
             \o OrderItems(Tail(items), product_details)

OrderDetail(row) ==
    [id |-> ObjectIdStr(row.order_doc._id),
     items |-> OrderItems(row.order_doc.items, row.product_details),
     total |-> row.order_doc.total]

\* ------------------------------------------------------------------ initial state
InitStore ==
    /\ products_collection = <<>>
    /\ orders_collection = <<>>
    /\ next_oid = FirstOid
    /\ pc = [p \in Procs |-> "idle"]
    /\ request = [p \in Procs |-> NoRequest]
    /\ validated_items = [p \in Procs |-> <<>>]
    /\ total_amount = [p \in Procs |-> 0]
    /\ total_count = [p \in Procs |-> 0]
    /\ response = [p \in Procs |-> NoResponse]
    /\ known = [p \in Procs |-> 0]

Init ==
    /\ InitStore
    /\ page_in = [offset |-> 0, limit |-> 1, total_count |-> 0]
    /\ page_out = None

\* The handler returns: the response is sent, its locals are gone and the slot
\* is free for the next request.
Respond(p, resp) ==
    /\ response' = [response EXCEPT ![p] = resp]
    /\ pc' = [pc EXCEPT ![p] = "idle"]
    /\ request' = [request EXCEPT ![p] = NoRequest]
    /\ validated_items' = [validated_items EXCEPT ![p] = <<>>]
    /\ total_amount' = [total_amount EXCEPT ![p] = 0]
    /\ total_count' = [total_count EXCEPT ![p] = 0]
    /\ known' = [known EXCEPT ![p] = 0]

\* The handler goes on to its next store call with request req.
Proceed(p, req, at) ==
    /\ request' = [request EXCEPT ![p] = req]
    /\ pc' = [pc EXCEPT ![p] = at]
    /\ response' = [response EXCEPT ![p] = NoResponse]

\* ------------------------------------------------------------------ create_product
\* POST /products: one insert_one; any exception becomes a 500.
CreateProduct(p, product) ==
    /\ pc[p] = "idle"
    /\ Len(products_collection) < MaxProducts
    /\ \/ /\ products_collection' =
                insert_one(products_collection,
                           [_id |-> 0, name |-> product.name, price |-> product.price,
                            sizes |-> product.sizes],
                           next_oid)
          /\ next_oid' = next_oid + 1
          /\ Respond(p, [NoResponse EXCEPT !.status = 201,
                                           !.id = Some(ObjectIdStr(next_oid))])
       \/ /\ UNCHANGED <<products_collection, next_oid>>
          /\ Respond(p, HTTPException(500, None))
    /\ UNCHANGED <<orders_collection, page_vars>>

\* ------------------------------------------------------------------ list_products
\* GET /products, first store call: count_documents(query_filter).
ListProductsCount(p, name, size, limit, offset) ==
    /\ pc[p] = "idle"
    /\ \/ /\ Proceed(p, [NoRequest EXCEPT !.op = "list_products", !.name = name,
                                          !.size = size, !.limit = limit,
                                          !.offset = offset],
                     "list_find")
          /\ total_count' = [total_count EXCEPT ![p] =
                count_documents(products_collection, QueryFilter(name, size))]
          /\ known' = [known EXCEPT ![p] = Len(products_collection)]
          /\ UNCHANGED <<validated_items, total_amount>>
       \/ Respond(p, HTTPException(500, None))
    /\ UNCHANGED <<store_vars, page_vars>>

\* GET /products, second store call: the find cursor, then the response.
ListProductsFind(p) ==
    /\ pc[p] = "list_find"
    /\ LET r == request[p]
       IN  \/ Respond(p, [NoResponse EXCEPT
                  !.status = 200,
                  !.data = FindProducts(products_collection, QueryFilter(r.name, r.size),
                                        r.offset, r.limit),
                  !.page = Some(create_pagination_info(r.offset, r.limit, total_count[p]))])
           \/ Respond(p, HTTPException(500, None))
    /\ UNCHANGED <<store_vars, page_vars>>

\* ------------------------------------------------------------------ create_order
InFlightOrders == Cardinality({q \in Procs : pc[q] = "order_loop"})

\* POST /orders arrives: total_amount = 0.0, validated_items = [].
CreateOrderBegin(p, userId, items) ==
    /\ pc[p] = "idle"
    /\ Len(orders_collection) + InFlightOrders < MaxOrders
    /\ Proceed(p, [NoRequest EXCEPT !.op = "create_order", !.userId = userId,
                                    !.items = items],
               "order_loop")
    /\ validated_items' = [validated_items EXCEPT ![p] = <<>>]
    /\ total_amount' = [total_amount EXCEPT ![p] = 0]
    /\ UNCHANGED <<store_vars, total_count, known, page_vars>>

\* item_total = product["price"] * item.qty
ItemTotal(product, item) == product.price * item.qty

\* A variant that assigns instead of adding.
AccumulateLast(total, item_total) == item_total

\* total_amount += item_total
Accumulate(total, item_total) == total + item_total

\* The dictionary appended to validated_items.
ValidatedItem(item, product, item_total) ==
    [productid |-> item.productid, qty |-> item.qty,
     price |-> product.price, item_total |-> item_total]

\* A variant that stores the items last to first.
OrderDictReversed(order, items, total) ==
    [_id |-> 0, userId |-> order.userId,
     items |-> [i \in 1..Len(items) |-> items[Len(items) + 1 - i]],
     total |-> total, status |-> "created"]

\* order_dict; insert_one fills in _id.
OrderDict(order, items, total) ==
    [_id |-> 0, userId |-> order.userId, items |-> items, total |-> total,
     status |-> "created"]

\* A variant of the loop turn that writes what it has validated so far when a
\* product is missing.
CreateOrderItemPartialWrite(p) ==
    /\ pc[p] = "order_loop"
    /\ Len(validated_items[p]) < Len(request[p].items)
    /\ LET item == request[p].items[Len(validated_items[p]) + 1]
           product == find_one(products_collection, ObjectId(item.productid))
       IN  IF ~ObjectIdValid(item.productid)
           THEN /\ Respond(p, HTTPException(400, Some(item.productid)))
                /\ UNCHANGED <<orders_collection, next_oid>>
           ELSE \/ /\ IsNone(product)
                   /\ orders_collection' =
                         insert_one(orders_collection,
                                    OrderDict(request[p], validated_items[p],
                                              total_amount[p]),
                                    next_oid)
                   /\ next_oid' = next_oid + 1
                   /\ Respond(p, HTTPException(404, Some(item.productid)))
                \/ /\ ~IsNone(product)
                   /\ LET item_total == ItemTotal(Value(product), item)
                      IN  /\ total_amount' = [total_amount EXCEPT ![p] =
                                Accumulate(@, item_total)]
                          /\ validated_items' = [validated_items EXCEPT ![p] =
                                Append(@, ValidatedItem(item, Value(product), item_total))]
                   /\ UNCHANGED <<pc, request, response, total_count, known,
                                  orders_collection, next_oid>>
    /\ UNCHANGED <<products_collection, page_vars>>

\* One turn of `for item in order.items`: ObjectId(), find_one, accumulate.
CreateOrderItem(p) ==
    /\ pc[p] = "order_loop"
    /\ Len(validated_items[p]) < Len(request[p].items)
    /\ LET item == request[p].items[Len(validated_items[p]) + 1]
           product == find_one(products_collection, ObjectId(item.productid))
       IN  IF ~ObjectIdValid(item.productid)
           THEN Respond(p, HTTPException(400, Some(item.productid)))
           ELSE \/ /\ IsNone(product)
                   /\ Respond(p, HTTPException(404, Some(item.productid)))
                \/ /\ ~IsNone(product)
                   /\ LET item_total == ItemTotal(Value(product), item)
                      IN  /\ total_amount' = [total_amount EXCEPT ![p] =
                                Accumulate(@, item_total)]
                          /\ validated_items' = [validated_items EXCEPT ![p] =
                                Append(@, ValidatedItem(item, Value(product), item_total))]
                   /\ UNCHANGED <<pc, request, response, total_count, known>>
                \/ Respond(p, HTTPException(500, None))
    /\ UNCHANGED <<store_vars, page_vars>>

\* After the loop: order_dict, one insert_one, 201.
CreateOrderInsert(p) ==
    /\ pc[p] = "order_loop"
    /\ Len(validated_items[p]) = Len(request[p].items)
    /\ \/ /\ orders_collection' =
                insert_one(orders_collection,
                           OrderDict(request[p], validated_items[p], total_amount[p]),
                           next_oid)
          /\ next_oid' = next_oid + 1
          /\ Respond(p, [NoResponse EXCEPT !.status = 201,
                                           !.id = Some(ObjectIdStr(next_oid))])
       \/ /\ UNCHANGED <<orders_collection, next_oid>>
          /\ Respond(p, HTTPException(500, None))
    /\ UNCHANGED <<products_collection, page_vars>>

\* ------------------------------------------------------------------ get_user_orders
\* GET /orders/{user_id}, first store call: count_documents({"userId": user_id}).
GetUserOrdersCount(p, user_id, limit, offset) ==
    /\ pc[p] = "idle"
    /\ \/ /\ Proceed(p, [NoRequest EXCEPT !.op = "get_user_orders", !.userId = user_id,
                                          !.limit = limit, !.offset = offset],
                     "orders_aggregate")
          /\ total_count' = [total_count EXCEPT ![p] =
                count_orders(orders_collection, user_id)]
          /\ UNCHANGED <<validated_items, total_amount, known>>
       \/ Respond(p, HTTPException(500, None))
    /\ UNCHANGED <<store_vars, page_vars>>

\* GET /orders/{user_id}, second store call: aggregate(pipeline), then the response.
GetUserOrdersAggregate(p) ==
    /\ pc[p] = "orders_aggregate"
    /\ LET r == request[p]
           rows == Aggregate(orders_collection, products_collection,
                             r.userId, r.offset, r.limit)
       IN  \/ Respond(p, [NoResponse EXCEPT
                  !.status = 200,
                  !.data = [i \in 1..Len(rows) |-> OrderDetail(rows[i])],
                  !.page = Some(create_pagination_info(r.offset, r.limit, total_count[p]))])
           \/ Respond(p, HTTPException(500, None))
    /\ UNCHANGED <<store_vars, page_vars>>

\* ------------------------------------------------------------------ pagination alone
\* create_pagination_info as a pure function: the arguments are drawn in the
\* initial state, the step applies the function.
InitPage ==
    /\ InitStore
    /\ \E o \in 0..MaxPageOffset, l \in 1..MaxPageLimit, t \in 0..MaxPageTotal :
           page_in = [offset |-> o, limit |-> l, total_count |-> t]
    /\ page_out = None

Paginate ==
    /\ page_out = None
    /\ page_out' = Some(create_pagination_info(page_in.offset, page_in.limit,
                                               page_in.total_count))
    /\ UNCHANGED <<store_vars, pc, request, validated_items, total_amount,
                   total_count, response, known, page_in>>

\* ------------------------------------------------------------------ specifications
\* Product and order creation: both request slots serve both endpoints, their
\* store calls interleave freely.
Next ==
    \E p \in Procs :
        \/ \E product \in OrderProductInputs : CreateProduct(p, product)
        \/ \E u \in OneUser, items \in ItemLists : CreateOrderBegin(p, u, items)
        \/ CreateOrderItem(p)
        \/ CreateOrderInsert(p)

Spec == Init /\ [][Next]_vars

\* Product creation and product listing.  A listing only reads and a product
\* creation is a single store call, so one reading slot and one writing slot
\* give every interleaving of a listing with creations.
NextList ==
    \/ \E p \in Writers, product \in ProductInputs : CreateProduct(p, product)
    \/ \E p \in Readers, n \in NameFilters, s \in SizeFilters, l \in Limits, o \in Offsets :
           ListProductsCount(p, n, s, l, o)
    \/ \E p \in Readers : ListProductsFind(p)

SpecList == Init /\ [][NextList]_vars

\* Order retrieval on the reading slot, product and order creation on the
\* writing slot: every store call of a writer may fall between the count and
\* the aggregation of a retrieval.
NextOrders ==
    \/ \E p \in Writers, product \in OrderProductInputs : CreateProduct(p, product)
    \/ \E p \in Writers, u \in Users, items \in ReadItemLists :
           CreateOrderBegin(p, u, items)
    \/ \E p \in Writers : CreateOrderItem(p)
    \/ \E p \in Writers : CreateOrderInsert(p)
    \/ \E p \in Readers, u \in Users, l \in Limits, o \in Offsets :
           GetUserOrdersCount(p, u, l, o)
    \/ \E p \in Readers : GetUserOrdersAggregate(p)

SpecOrders == Init /\ [][NextOrders]_vars

SpecPage == InitPage /\ [][Paginate]_vars

\* ------------------------------------------------------------------ properties
\* What the properties speak of, stated apart from the handlers.

\* The product a product id string identifies: the one whose ObjectId the
\* string parses to.
Identifies(productid, doc) == ObjectIdValid(productid) /\ doc._id = ObjectId(productid)
Resolves(productid) ==
    \E i \in 1..Len(products_collection) : Identifies(productid, products_collection[i])
ProductOf(productid) ==
    products_collection[CHOOSE i \in 1..Len(products_collection) :
                            Identifies(productid, products_collection[i])]

RECURSIVE SumItemTotals(_)
SumItemTotals(items) ==
    IF items = <<>> THEN 0 ELSE Head(items).item_total + SumItemTotals(Tail(items))

\* Slot p takes a step of its create_order handler.
OrderStep(p) ==
    /\ pc[p] = "order_loop"
    /\ pc'[p] # "order_loop" \/ validated_items'[p] # validated_items[p]

\* C1: for offset >= 0, limit >= 1, totalCount >= 0, create_pagination_info
\* returns limit unchanged, next = offset + limit exactly when
\* offset + limit < totalCount (absent otherwise), and
\* previous = max(0, offset - limit) exactly when offset > 0 (absent otherwise).
C1_Pagination ==
    ~IsNone(page_out) =>
        LET o == page_in.offset
            l == page_in.limit
            t == page_in.total_count
            r == Value(page_out)
        IN  /\ r.limit = l
            /\ (o + l < t) => r.next = Some(o + l)
            /\ ~(o + l < t) => IsNone(r.next)
            /\ (o > 0) => r.previous = Some(IF o - l > 0 THEN o - l ELSE 0)
            /\ ~(o > 0) => IsNone(r.previous)

\* Reached: a result for 0 < offset < limit with offset >= totalCount, where
\* previous is clamped to 0 and next is absent.
C1_Witness ==
    /\ ~IsNone(page_out)
    /\ page_in.offset > 0
    /\ page_in.offset < page_in.limit
    /\ page_in.offset >= page_in.total_count
    /\ Value(page_out).previous = Some(0)

\* C2: a create_order request that fails in its item loop (malformed id,
\* unknown id, store exception in the lookup) persists nothing: every step of a
\* create_order handler other than the one that answers 201 leaves the orders
\* collection as it is, whatever was validated before.
C2_FailedOrderPersistsNothing ==
    [][\A p \in Procs :
          /\ (pc[p] = "idle" /\ pc'[p] = "order_loop")
                => orders_collection' = orders_collection
          /\ (OrderStep(p) /\ ~(pc'[p] = "idle" /\ response'[p].status = 201))
                => orders_collection' = orders_collection]_vars

\* Reached: a handler that has validated an item and whose next item is
\* malformed, so that its next step is the failure.
C2_Witness ==
    \E p \in Procs :
        /\ pc[p] = "order_loop"
        /\ Len(validated_items[p]) >= 1
        /\ Len(validated_items[p]) < Len(request[p].items)
        /\ ~ObjectIdValid(request[p].items[Len(validated_items[p]) + 1].productid)
        /\ Len(orders_collection) >= 1

\* C3: in every persisted order each item_total is price times qty, the price
\* is the price of the product the item names, the total is the sum of the
\* item_totals; and a persisted order never changes.
C3_OrderTotals ==
    /\ [](\A n \in 1..Len(orders_collection) :
            LET o == orders_collection[n]
            IN  /\ \A i \in 1..Len(o.items) :
                       /\ o.items[i].item_total = o.items[i].price * o.items[i].qty
                       /\ Resolves(o.items[i].productid)
                       /\ o.items[i].price = ProductOf(o.items[i].productid).price
                /\ o.total = SumItemTotals(o.items))
    /\ [][/\ Len(orders_collection') >= Len(orders_collection)
          /\ \A n \in 1..Len(orders_collection) :
                 orders_collection'[n] = orders_collection[n]]_vars

\* Reached: an order of two items, 10 x 2 and 5 x 3, with total 35.
C3_Witness ==
    \E n \in 1..Len(orders_collection) :
        LET o == orders_collection[n]
        IN  /\ Len(o.items) = 2
            /\ o.items[1].price = 10 /\ o.items[1].qty = 2
            /\ o.items[2].price = 5 /\ o.items[2].qty = 3
            /\ o.total = 35

\* C4: every item of every persisted order names a product that is in the
\* products collection, and an order is stored with the items in the order
\* they were submitted.
C4_OrdersReferenceProducts ==
    /\ [](\A n \in 1..Len(orders_collection) :
            \A i \in 1..Len(orders_collection[n].items) :
                Resolves(orders_collection[n].items[i].productid))
    /\ [][\A p \in Procs :
            (OrderStep(p) /\ pc'[p] = "idle" /\ response'[p].status = 201) =>
                LET o == orders_collection'[Len(orders_collection')]
                IN  /\ Len(orders_collection') = Len(orders_collection) + 1
                    /\ Len(o.items) = Len(request[p].items)
                    /\ \A i \in 1..Len(o.items) :
                           /\ o.items[i].productid = request[p].items[i].productid
                           /\ o.items[i].qty = request[p].items[i].qty]_vars

\* Reached: an order of two different items, placed while the other slot's
\* create_order was under way.
C4_Witness ==
    \E n \in 1..Len(orders_collection) :
        /\ Len(orders_collection[n].items) = 2
        /\ orders_collection[n].items[1].productid # orders_collection[n].items[2].productid
        /\ \E q \in Procs : pc[q] = "order_loop" /\ Len(validated_items[q]) >= 1

\* C5: every persisted order has at least one item (a create_order request
\* with an empty items list is rejected).
C5_OrdersNonEmpty ==
    \A n \in 1..Len(orders_collection) : Len(orders_collection[n].items) >= 1

\* C9: create_order examines the items in list order and stops at the first
\* that fails: 400 naming the id when it is malformed, 404 naming the id when
\* it is well-formed and matches no product (500 when the lookup throws); 201
\* with the new order's id only when every item resolved.
C9_FirstFailureDecides ==
    [][\A p \in Procs :
          OrderStep(p) =>
            LET items == request[p].items
                k == Len(validated_items[p]) + 1
                r == response'[p]
                done == pc'[p] = "idle"
            IN  /\ (k <= Len(items) /\ ~ObjectIdValid(items[k].productid))
                      => (done /\ r.status = 400 /\ r.detail = Some(items[k].productid))
                /\ (k <= Len(items) /\ ObjectIdValid(items[k].productid)
                      /\ ~Resolves(items[k].productid))
                      => (/\ done
                          /\ r.status \in {404, 500}
                          /\ r.status = 404 => r.detail = Some(items[k].productid))
                /\ (done /\ r.status = 400)
                      => (k <= Len(items) /\ ~ObjectIdValid(items[k].productid))
                /\ (done /\ r.status = 404)
                      => (k <= Len(items) /\ ObjectIdValid(items[k].productid)
                            /\ ~Resolves(items[k].productid))
                /\ (done /\ r.status = 201)
                      => (/\ k = Len(items) + 1
                          /\ \A i \in 1..Len(items) : Resolves(items[i].productid)
                          /\ r.id = Some(ObjectIdStr(
                                 orders_collection'[Len(orders_collection')]._id)))
                /\ ~done => Len(validated_items'[p]) = k]_vars

\* Reached: a 400 that names the malformed id while products and an order exist.
C9_Witness ==
    \E p \in Procs :
        /\ response[p].status = 400
        /\ response[p].detail = Some([i \in 1..OidHexWidth |-> "g"])
        /\ Len(products_collection) >= 1
        /\ Len(orders_collection) >= 1

\* ------------------------------------------------------------------ listing properties
\* Slot p answers a list_products request with 200.
ListStep(p) == pc[p] = "list_find" /\ pc'[p] = "idle" /\ response'[p].status = 200

\* Slot p answers a get_user_orders request with 200.
AggregateStep(p) ==
    pc[p] = "orders_aggregate" /\ pc'[p] = "idle" /\ response'[p].status = 200

\* sub occurs in text, letter case ignored, every character taken literally.
ContainsCI(text, sub) ==
    \E i \in 0..(Len(text) - Len(sub)) :
        \A k \in 1..Len(sub) : Lower(text[i + k]) = Lower(sub[k])

HasSize(doc, label) == \E i \in 1..Len(doc.sizes) : doc.sizes[i].size = label

\* A parameter that was sent; a parameter that was sent and is not "".
Supplied(o) == ~IsNone(o)
SuppliedNonEmpty(o) == ~IsNone(o) /\ Value(o) # <<>>

SatisfiesSupplied(doc, name, size) ==
    /\ Supplied(name) => ContainsCI(doc.name, Value(name))
    /\ Supplied(size) => HasSize(doc, Value(size))

SatisfiesNonEmpty(doc, name, size) ==
    /\ SuppliedNonEmpty(name) => ContainsCI(doc.name, Value(name))
    /\ SuppliedNonEmpty(size) => HasSize(doc, Value(size))

ListedAs(doc) == [id |-> ObjectIdStr(doc._id), name |-> doc.name, price |-> doc.price]

\* Elements offset+1 .. offset+limit of a sequence.
PageOf(seq, offset, limit) == SubSeq(seq, offset + 1, Min(Len(seq), offset + limit))

\* The matching products in insertion order, as listed.
MatchingSupplied(name, size) ==
    LET Test(d) == SatisfiesSupplied(d, name, size)
        hits == SelectSeq(products_collection, Test)
    IN  [i \in 1..Len(hits) |-> ListedAs(hits[i])]

MatchingNonEmpty(name, size) ==
    LET Test(d) == SatisfiesNonEmpty(d, name, size)
        hits == SelectSeq(products_collection, Test)
    IN  [i \in 1..Len(hits) |-> ListedAs(hits[i])]

\* The pages found at offsets k*limit, (k+1)*limit, ... one after the other.
RECURSIVE PagesFrom(_, _, _, _)
PagesFrom(name, size, limit, k) ==
    LET page == FindProducts(products_collection, QueryFilter(name, size), k * limit, limit)
    IN  IF page = <<>> THEN <<>> ELSE page \o PagesFrom(name, size, limit, k + 1)

\* C6, as claimed: a listing without name and size filter holds every product
\* that was stored when the listing arrived, whatever other products are
\* stored; stated for the listings that start at offset 0.
C6_ListingHoldsEveryProduct ==
    [][\A p \in Procs :
          (ListStep(p) /\ IsNone(request[p].name) /\ IsNone(request[p].size)
              /\ request[p].offset = 0) =>
              \A k \in 1..known[p] :
                  \E i \in 1..Len(response'[p].data) :
                      response'[p].data[i] = ListedAs(products_collection[k])]_vars

\* C6, amended: a listing without name and size filter holds every product
\* that was stored when the listing arrived and whose place k in insertion
\* order lies on the page, offset < k <= offset + limit, with its id, name and
\* price as stored; and it holds nothing but the products at those places.
C6_ListingHoldsProductsOnPage ==
    [][\A p \in Procs :
          (ListStep(p) /\ IsNone(request[p].name) /\ IsNone(request[p].size)) =>
              /\ \A k \in 1..known[p] :
                     (request[p].offset < k /\ k <= request[p].offset + request[p].limit) =>
                         /\ k - request[p].offset <= Len(response'[p].data)
                         /\ response'[p].data[k - request[p].offset]
                                = ListedAs(products_collection[k])
              /\ \A i \in 1..Len(response'[p].data) :
                     /\ i <= request[p].limit
                     /\ request[p].offset + i <= Len(products_collection)
                     /\ response'[p].data[i]
                            = ListedAs(products_collection[request[p].offset + i])]_vars

\* Reached: a listing at an offset > 0 that holds the second product alone.
C6_Witness ==
    \E p \in Procs :
        /\ response[p].status = 200
        /\ Len(products_collection) = 2
        /\ response[p].data = <<ListedAs(products_collection[2])>>
        /\ ~IsNone(Value(response[p].page).previous)

OrdersOf(user_id) ==
    LET Test(o) == o.userId = user_id
    IN  SelectSeq(orders_collection, Test)

\* The items of an order whose product resolves, with the product's name.
RECURSIVE ResolvedItems(_)
ResolvedItems(items) ==
    IF items = <<>> THEN <<>>
    ELSE (IF Resolves(Head(items).productid)
          THEN <<[productDetails |-> [name |-> ProductOf(Head(items).productid).name,
                                      id |-> Head(items).productid],
                  qty |-> Head(items).qty]>>
          ELSE <<>>)
         \o ResolvedItems(Tail(items))

ReturnedAs(o) ==
    [id |-> ObjectIdStr(o._id), items |-> ResolvedItems(o.items), total |-> o.total]

\* C8: get_user_orders returns the orders of the requested user in insertion
\* order, offset skipped, at most limit, each with its stored total and with
\* exactly the items whose product resolves in the products collection, in
\* stored order, under the product's name and the stored qty.
C8_OrdersEnriched ==
    [][\A p \in Procs :
          AggregateStep(p) =>
              LET page == PageOf(OrdersOf(request[p].userId),
                                 request[p].offset, request[p].limit)
              IN  response'[p].data = [i \in 1..Len(page) |-> ReturnedAs(page[i])]]_vars

\* C10, as claimed: the number of orders in data is
\* min(limit, max(0, total - offset)) for the total counted, and next is absent
\* only if no order of the user lies beyond the returned page.
C10_PageMatchesData ==
    [][\A p \in Procs :
          AggregateStep(p) =>
              LET r == request[p]
                  n == Len(response'[p].data)
              IN  /\ n = Min(r.limit, Max(0, total_count[p] - r.offset))
                  /\ IsNone(Value(response'[p].page).next)
                        => Len(OrdersOf(r.userId)) <= r.offset + n]_vars

\* C10, amended: the number of orders in data is at least
\* min(limit, max(0, total - offset)) and at most limit; when next is present
\* the page is full and orders of the user lie beyond it; and when no order of
\* the user was inserted between the count and the aggregation, the number is
\* min(limit, max(0, total - offset)) and next is absent only if no order of
\* the user lies beyond the page.
C10_PageBoundsData ==
    [][\A p \in Procs :
          AggregateStep(p) =>
              LET r == request[p]
                  n == Len(response'[p].data)
                  least == Min(r.limit, Max(0, total_count[p] - r.offset))
                  next == Value(response'[p].page).next
              IN  /\ least <= n /\ n <= r.limit
                  /\ ~IsNone(next)
                        => (n = r.limit /\ Len(OrdersOf(r.userId)) > r.offset + n)
                  /\ Len(OrdersOf(r.userId)) = total_count[p]
                        => (/\ n = least
                            /\ IsNone(next) => Len(OrdersOf(r.userId)) <= r.offset + n)]_vars

\* Reached: a retrieval that has counted, and an order of its user inserted
\* since, before its aggregation.
C10_Witness ==
    \E p \in Procs :
        /\ pc[p] = "orders_aggregate"
        /\ total_count[p] < Len(OrdersOf(request[p].userId))

====
